---- MODULE Spec2Model ----
(***************************************************************************)
(* Point-to-box target assignment and loss masking of the point head       *)
(* (lib/pcdet/models/dense_heads/point_head_template.py and                *)
(* point_intra_part_head.py).                                              *)
(*                                                                         *)
(* Numbers.  Coordinates and box dimensions are integers of one grid unit. *)
(* A heading is an integer number of quarter turns, so that the rotations  *)
(* are exact.  A quotient the code computes in floating point is kept as a *)
(* pair <<numerator, denominator>>; a zero denominator is the code's       *)
(* inf/nan.  Indices are 0-based as in the code; a TLA+ sequence position  *)
(* is the index plus one.                                                  *)
(***************************************************************************)
EXTENDS Integers, Sequences, FiniteSets, TLC

VARIABLES
    num_class,            \* self.num_class
    set_ignore_flag,      \* argument of assign_stack_targets
    use_ball_constraint,  \* argument of assign_stack_targets
    ret_box_labels,       \* argument of assign_stack_targets
    ret_part_labels,      \* argument of assign_stack_targets
    points,               \* argument points, (B, N, 3)
    gt_boxes,             \* argument gt_boxes, (B, M, 7)
    gt_classes,           \* the class id of each annotated box (B, M); no tensor holds it
    extend_gt_boxes,      \* argument extend_gt_boxes, (B, M, 7)
    pc,                   \* position in assign_stack_targets
    tmp,                  \* the stacked points (BN, 4), <<>> before line 63
    k,                    \* the loop variable of line 79
    point_cls_labels,     \* (BN)
    point_box_labels,     \* (BN, 8) or None
    point_part_labels,    \* (BN, 3) or None
    cls_writes,           \* per flat index, how often line 118 wrote it
    encode_calls,         \* the batch elements box_coder.encode_torch ran for
    raised,               \* the exception that left the call, or "none"
    cls_weights,          \* get_cls_layer_loss: the weight of each point
    part_mask,            \* get_part_layer_loss: pos_mask
    reg_weights,          \* get_box_layer_loss: reg_weights
    hpc,                  \* position in the head's life cycle
    model_cfg,            \* self.model_cfg and the constructor's arguments
    training,             \* self.training
    box_layers,           \* self.box_layers is not None
    forward_ret_dict,     \* self.forward_ret_dict
    loss_funcs,           \* the loss modules build_losses would add
    batch_dict,           \* the keys forward has put into batch_dict
    loss_result           \* what get_loss gave

vars == <<num_class, set_ignore_flag, use_ball_constraint, ret_box_labels,
          ret_part_labels, points, gt_boxes, gt_classes, extend_gt_boxes,
          pc, tmp, k, point_cls_labels, point_box_labels,
          point_part_labels, cls_writes, encode_calls, raised, cls_weights,
          part_mask, reg_weights, hpc, model_cfg, training, box_layers,
          forward_ret_dict, loss_funcs, batch_dict, loss_result>>

callVars == <<num_class, set_ignore_flag, use_ball_constraint, ret_box_labels,
              ret_part_labels, points, gt_boxes, gt_classes, extend_gt_boxes>>

headVars == <<hpc, model_cfg, training, box_layers, forward_ret_dict, loss_funcs,
              batch_dict, loss_result>>

lossVars == <<cls_weights, part_mask, reg_weights>>

\* Points lie at x in 0..MaxCoord on the grid.
MaxCoord == 2

\* central_radius=2.0, the default of assign_stack_targets.
central_radius == 2

None == "None"

Abs(a) == IF a < 0 THEN -a ELSE a

\* cos and sin of q quarter turns.
Cos4(q) == CASE q % 4 = 0 -> 1 [] q % 4 = 2 -> -1 [] OTHER -> 0
Sin4(q) == CASE q % 4 = 1 -> 1 [] q % 4 = 3 -> -1 [] OTHER -> 0

\* tensor.long() of a heading column: q quarter turns are q * 1.5708 rad,
\* truncated toward zero.
HeadingLong(q) ==
    LET m == q * 15708
    IN  IF m >= 0 THEN m \div 10000 ELSE -((-m) \div 10000)

(***************************************************************************)
(* The inputs.                                                             *)
(***************************************************************************)

\* The tensor shapes of the call: B batch elements, N points in each,
\* M box rows in each.
Shape == [B |-> 2, N |-> 2, M |-> 2]

PointSet == {<<x, 0, 0>> : x \in 0..MaxCoord}

\* A box row is <<x, y, z, l, w, h, heading>> (columns 0..6 of the code).
ZeroBox == <<0, 0, 0, 0, 0, 0, 0>>
BoxA == <<0, 0, 0, 4, 2, 1, 0>>
BoxB == <<0, 0, 0, 4, 2, 4, -1>>
BoxC == <<2, 0, 0, 4, 2, 2, -1>>

\* The box arrays of one batch element: the annotated boxes, which do not
\* overlap, then zero padding; with each the class ids of the annotation.
BoxArrays ==
    { [boxes |-> <<ZeroBox, ZeroBox>>, classes |-> <<0, 0>>],
      [boxes |-> <<BoxA, ZeroBox>>,    classes |-> <<2, 0>>],
      [boxes |-> <<BoxB, BoxC>>,       classes |-> <<3, 1>>] }

NumClasses == {1, 3}

\* GT_EXTRA_WIDTH; a negative width gives extend_gt_boxes inside gt_boxes.
ExtraWidths == {-1, 1}

\* (ret_box_labels, ret_part_labels)
RetFlags == {<<TRUE, TRUE>>, <<FALSE, TRUE>>, <<TRUE, FALSE>>}

Batch == 1..Shape.B
Rows == 1..Shape.M
Flat == 1..(Shape.B * Shape.N)

\* The class id of row m: 1 in the single-class setting.
ClassId(nc, c) == IF c = 0 THEN 0 ELSE IF nc = 1 THEN 1 ELSE c

(***************************************************************************)
(* Collaborators whose code is not part of the two files.                  *)
(***************************************************************************)

\* box_utils.enlarge_box3d: the box with the margin added on every side.
enlarge_box3d(box, extra_width) ==
    <<box[1], box[2], box[3], box[4] + 2 * extra_width,
      box[5] + 2 * extra_width, box[6] + 2 * extra_width, box[7]>>

\* Whether offset a from the centre lies inside a box extent d; a point on
\* the surface is outside.
Within(a, d) == 2 * Abs(a) < d

\* The point in the box's frame: centre subtracted, rotated by the negative
\* heading about the vertical axis z.
LocalOf(p, box) ==
    LET dx == p[1] - box[1]
        dy == p[2] - box[2]
    IN  <<dx * Cos4(box[7]) + dy * Sin4(box[7]),
          dy * Cos4(box[7]) - dx * Sin4(box[7]),
          p[3] - box[3]>>

PointInBox(p, box) ==
    LET loc == LocalOf(p, box)
    IN  /\ Within(loc[1], box[4])
        /\ Within(loc[2], box[5])
        /\ Within(loc[3], box[6])

\* roiaware_pool3d_utils.points_in_boxes_gpu for one batch element: per
\* point the index of the box that contains it, -1 for none.
points_in_boxes_gpu(pts, boxes) ==
    [n \in DOMAIN pts |->
        LET hit == {m \in DOMAIN boxes : PointInBox(pts[n], boxes[m])}
        IN  IF hit = {} THEN -1
            ELSE (CHOOSE m \in hit : \A o \in hit : m <= o) - 1]

\* common_utils.rotate_points_along_y: v turned by q quarter turns about y.
rotate_points_along_y(v, q) ==
    <<v[1] * Cos4(q) + v[3] * Sin4(q), v[2], v[3] * Cos4(q) - v[1] * Sin4(q)>>

\* box_coder.encode_torch: x, y, z, h, w, l, cos ry, sin ry.
encode_torch(box, p) ==
    <<box[1] - p[1], box[2] - p[2], box[3] - p[3], box[4], box[5], box[6],
      Cos4(box[7]), Sin4(box[7])>>

(***************************************************************************)
(* assign_stack_targets.                                                   *)
(***************************************************************************)

\* Lines 63-67: row i of tmp is (i, x, y, z); view(-1, 4) lays the rows of
\* batch element i at the flat indices i*N .. i*N + N-1.
StackPoints(pts) ==
    [f \in Flat |->
        LET i == (f - 1) \div Shape.N
            n == (f - 1) % Shape.N
        IN  <<i, pts[i + 1][n + 1][1], pts[i + 1][n + 1][2], pts[i + 1][n + 1][3]>>]

\* A wrong comparison in line 80: <= for ==.
BsMask_upto(pts4, kk) == {f \in DOMAIN pts4 : pts4[f][1] <= kk}

\* Line 80: bs_mask, as the set of flat positions it selects.
BsMask(pts4, kk) == {f \in DOMAIN pts4 : pts4[f][1] = kk}

\* The n-th position a boolean mask selects, in index order.
Nth(mask, n) == CHOOSE f \in mask : Cardinality({g \in mask : g < f}) = n - 1

\* Line 81: points_single = points[bs_mask][:, 1:4].
PointsSingle(pts4, kk) ==
    LET mask == BsMask(pts4, kk)
    IN  [n \in 1..Cardinality(mask) |->
            <<pts4[Nth(mask, n)][2], pts4[Nth(mask, n)][3], pts4[Nth(mask, n)][4]>>]

\* Python indexing of the box rows: index -1 is the last row.
BoxRow(boxes, idx) == IF idx < 0 THEN boxes[Len(boxes) + 1 + idx] ELSE boxes[idx + 1]

\* A wrong operator in line 105: & for ^.
IgnoreFlag_and(fg, ext_idx) == fg /\ (ext_idx >= 0)

\* Line 105: ignore_flag = fg_flag ^ (extend_box_idxs_of_pts >= 0).
IgnoreFlag(fg, ext_idx) == fg # (ext_idx >= 0)

\* Lines 108-110: the box centre lifted by half of column 5, and the point
\* nearer to it than central_radius.
BallFlag(box, p) ==
    LET dx == box[1] - p[1]
        dy == box[2] - p[2]
        dz2 == 2 * (box[3] - p[3]) + box[6]
    IN  4 * (dx * dx + dy * dy) + dz2 * dz2 < 4 * central_radius * central_radius

\* Lines 100-113: fg_flag of one point.
FgFlag(ignore_mode, ball_mode, box_idx, box, p) ==
    IF ignore_mode THEN box_idx >= 0
    ELSE IF ball_mode THEN (box_idx >= 0) /\ BallFlag(box, p)
    ELSE FALSE

\* Line 117: 1, or the last column of the box row as a long.
FgLabel(nc, box) == IF nc = 1 THEN 1 ELSE HeadingLong(box[Len(box)])

\* Lines 83, 106, 117: zero, then -1 where ignore_flag, then the class where
\* fg_flag.
ClsLabel(fg, ignore, lbl) == IF fg THEN lbl ELSE IF ignore THEN -1 ELSE 0

\* t / d + 0.5 as a fraction.
PartFrac(t, d) == <<2 * t + d, 2 * d>>

\* Lines 135-145: the part-offset target of a foreground point.
PartLabel(box, p) ==
    LET t == rotate_points_along_y(
                 <<p[1] - box[1], p[2] - box[2], p[3] - box[3]>>, -box[7])
    IN  <<PartFrac(t[1], box[6]), PartFrac(t[2], box[4]), PartFrac(t[3], box[5])>>

ZeroPart == <<<<0, 1>>, <<0, 1>>, <<0, 1>>>>
ZeroBoxLabel == <<0, 0, 0, 0, 0, 0, 0, 0>>

\* Lines 122-130 without the fg_flag mask: every point encoded.
BoxLabel_unmasked(fg, box, p) == encode_torch(box, p)

\* Lines 122-130: zeros, and the encoding where fg_flag.
BoxLabel(fg, box, p) == IF fg THEN encode_torch(box, p) ELSE ZeroBoxLabel

\* Lines 80-117 for batch element kk: per point of the element its box
\* index, flags, assigned box and labels.
Single(kk) ==
    LET pts == PointsSingle(tmp, kk)
        boxes == gt_boxes[kk + 1]
        box_idxs_of_pts == points_in_boxes_gpu(pts, boxes)
        ext_idxs == IF set_ignore_flag
                    THEN points_in_boxes_gpu(pts, extend_gt_boxes[kk + 1])
                    ELSE [n \in DOMAIN pts |-> -1]
    IN  [n \in DOMAIN pts |->
            LET box == BoxRow(boxes, box_idxs_of_pts[n])
                fg == FgFlag(set_ignore_flag, use_ball_constraint,
                             box_idxs_of_pts[n], box, pts[n])
                ignore == set_ignore_flag /\ IgnoreFlag(fg, ext_idxs[n])
            IN  [p |-> pts[n], idx |-> box_idxs_of_pts[n], ext |-> ext_idxs[n],
                 fg |-> fg, ignore |-> ignore, box |-> box,
                 cls |-> ClsLabel(fg, ignore, FgLabel(num_class, box)),
                 boxl |-> BoxLabel(fg, box, pts[n]),
                 part |-> IF fg THEN PartLabel(box, pts[n]) ELSE ZeroPart]]

\* label[bs_mask] = single: the masked positions take the element's rows.
Scatter(label, mask, single) ==
    [f \in DOMAIN label |->
        IF f \in mask
        THEN single[Cardinality({g \in mask : g <= f})]
        ELSE label[f]]

(***************************************************************************)
(* The loss masks (get_cls_layer_loss, get_part_layer_loss,                *)
(* get_box_layer_loss), as functions of point_cls_labels.                  *)
(***************************************************************************)

\* Line 159: positives.
Positive(label) == label > 0

\* A wrong comparison in line 160: <= 0 for == 0.
ClsWeight_nonpositive(label) ==
    (IF label <= 0 THEN 1 ELSE 0) + (IF Positive(label) THEN 1 ELSE 0)

\* Lines 160-161: negative_cls_weights + 1.0 * positives, per point.
ClsWeight(label) == (IF label = 0 THEN 1 ELSE 0) + (IF Positive(label) THEN 1 ELSE 0)

\* Lines 162-163, 183, 202-203: the count of positives, at least 1.
PosNormalizer(labels) ==
    LET n == Cardinality({f \in DOMAIN labels : Positive(labels[f])})
    IN  IF n < 1 THEN 1 ELSE n

(***************************************************************************)
(* The call of assign_stack_targets, step by step.                         *)
(***************************************************************************)

NoHead ==
    /\ hpc = "none"
    /\ model_cfg = None
    /\ training = FALSE
    /\ box_layers = FALSE
    /\ forward_ret_dict = None
    /\ loss_funcs = {}
    /\ batch_dict = {}
    /\ loss_result = None

NotCalled ==
    /\ tmp = <<>>
    /\ k = 0
    /\ point_cls_labels = None
    /\ point_box_labels = None
    /\ point_part_labels = None
    /\ cls_writes = [f \in Flat |-> 0]
    /\ encode_calls = {}
    /\ raised = "none"
    /\ cls_weights = None
    /\ part_mask = None
    /\ reg_weights = None

\* Lines 57-59 of assign_targets: every row of every element enlarged.
Enlarged(boxes, w) ==
    [b \in DOMAIN boxes |-> [m \in DOMAIN boxes[b] |-> enlarge_box3d(boxes[b][m], w)]]

Inputs ==
    /\ num_class \in NumClasses
    /\ points \in [Batch -> [1..Shape.N -> PointSet]]
    /\ \E arr \in [Batch -> BoxArrays] :
          /\ gt_boxes = [b \in Batch |-> arr[b].boxes]
          /\ gt_classes = [b \in Batch |->
                              [m \in Rows |-> ClassId(num_class, arr[b].classes[m])]]

\* A call of assign_stack_targets: extend_gt_boxes is given in ignore-flag
\* mode and left at its default None otherwise.
Init ==
    /\ Inputs
    /\ set_ignore_flag \in BOOLEAN
    /\ use_ball_constraint \in BOOLEAN
    /\ IF set_ignore_flag /\ ~use_ball_constraint
       THEN \E w \in ExtraWidths : extend_gt_boxes = Enlarged(gt_boxes, w)
       ELSE extend_gt_boxes = None
    /\ \E r \in RetFlags : ret_box_labels = r[1] /\ ret_part_labels = r[2]
    /\ pc = "entry"
    /\ NotCalled
    /\ NoHead

\* Lines 62-67.
Stack ==
    /\ pc = "entry"
    /\ tmp' = StackPoints(points)
    /\ pc' = "asserts"
    /\ UNCHANGED <<callVars, headVars, lossVars, k, point_cls_labels,
                   point_box_labels, point_part_labels, cls_writes,
                   encode_calls, raised>>

\* Lines 69-73, an assertion failing.  The shape assertions hold of every
\* input here; line 73 fails when the two modes are equal.
AssertFail ==
    /\ pc = "asserts"
    /\ set_ignore_flag = use_ball_constraint
    /\ pc' = "raised"
    /\ raised' = "AssertionError"
    /\ UNCHANGED <<callVars, headVars, lossVars, tmp, k, point_cls_labels,
                   point_box_labels, point_part_labels, cls_writes,
                   encode_calls>>

\* Lines 69-78, the assertions passing: the label tensors are allocated.
Allocate ==
    /\ pc = "asserts"
    /\ set_ignore_flag # use_ball_constraint
    /\ point_cls_labels' = [f \in DOMAIN tmp |-> 0]
    /\ point_box_labels' =
           IF ret_box_labels THEN [f \in DOMAIN tmp |-> ZeroBoxLabel] ELSE None
    /\ point_part_labels' =
           IF ret_part_labels THEN [f \in DOMAIN tmp |-> ZeroPart] ELSE None
    /\ k' = 0
    /\ pc' = "loop"
    /\ UNCHANGED <<callVars, headVars, lossVars, tmp, cls_writes,
                   encode_calls, raised>>

\* Lines 79-146, one iteration of the loop.
LoopIter ==
    /\ pc = "loop"
    /\ k < Len(gt_boxes)
    /\ IF ~set_ignore_flag /\ ~use_ball_constraint
       THEN \* line 113
            /\ pc' = "raised"
            /\ raised' = "NotImplementedError"
            /\ UNCHANGED <<k, point_cls_labels, point_box_labels,
                           point_part_labels, cls_writes, encode_calls>>
       ELSE LET mask == BsMask(tmp, k)
                single == Single(k)
                some_fg == \E n \in DOMAIN single : single[n].fg
            IN  /\ point_cls_labels' =
                       Scatter(point_cls_labels, mask,
                               [n \in DOMAIN single |-> single[n].cls])
                /\ cls_writes' = [f \in Flat |->
                       IF f \in mask THEN cls_writes[f] + 1 ELSE cls_writes[f]]
                /\ IF ret_box_labels /\ some_fg
                   THEN /\ point_box_labels' =
                               Scatter(point_box_labels, mask,
                                       [n \in DOMAIN single |-> single[n].boxl])
                        /\ encode_calls' = encode_calls \cup {k}
                   ELSE UNCHANGED <<point_box_labels, encode_calls>>
                /\ IF ret_part_labels
                   THEN point_part_labels' =
                            Scatter(point_part_labels, mask,
                                    [n \in DOMAIN single |-> single[n].part])
                   ELSE UNCHANGED point_part_labels
                /\ k' = k + 1
                /\ UNCHANGED <<pc, raised>>
    /\ UNCHANGED <<callVars, headVars, lossVars, tmp>>

\* Lines 148-153.
Return ==
    /\ pc = "loop"
    /\ k = Len(gt_boxes)
    /\ pc' = "done"
    /\ UNCHANGED <<callVars, headVars, lossVars, tmp, k, point_cls_labels,
                   point_box_labels, point_part_labels, cls_writes,
                   encode_calls, raised>>

\* The three loss functions' masks of the labels returned: lines 159-163,
\* 182-187 and 197-203.
LossMasks ==
    /\ pc = "done"
    /\ cls_weights' = [f \in DOMAIN point_cls_labels |->
           <<ClsWeight(point_cls_labels[f]), PosNormalizer(point_cls_labels)>>]
    /\ part_mask' = [f \in DOMAIN point_cls_labels |-> Positive(point_cls_labels[f])]
    /\ reg_weights' = [f \in DOMAIN point_cls_labels |->
           <<IF Positive(point_cls_labels[f]) THEN 1 ELSE 0,
             PosNormalizer(point_cls_labels)>>]
    /\ pc' = "masked"
    /\ UNCHANGED <<callVars, headVars, tmp, k, point_cls_labels,
                   point_box_labels, point_part_labels, cls_writes,
                   encode_calls, raised>>

Next == Stack \/ AssertFail \/ Allocate \/ LoopIter \/ Return \/ LossMasks

Spec == Init /\ [][Next]_vars

(***************************************************************************)
(* What the claims speak of, stated on the inputs of the call.             *)
(***************************************************************************)

FlatOf(b, n) == (b - 1) * Shape.N + n

Returned == pc \in {"done", "masked"}

IgnoreMode == set_ignore_flag /\ ~use_ball_constraint
BallMode == use_ball_constraint /\ ~set_ignore_flag

\* The rows of element b's ground-truth boxes that contain point n.
GtHits(b, n) == {m \in Rows : PointInBox(points[b][n], gt_boxes[b][m])}
InSomeGt(b, n) == GtHits(b, n) # {}
InSomeExt(b, n) == \E m \in Rows : PointInBox(points[b][n], extend_gt_boxes[b][m])
Halo(b, n) == InSomeExt(b, n) /\ ~InSomeGt(b, n)

\* The ground-truth row the point-in-box test assigns to point n.
GtRow(b, n) == CHOOSE m \in GtHits(b, n) : \A o \in GtHits(b, n) : m <= o

\* The box centre shifted upward by half the box height.
TopCenter2(box) == <<2 * box[1], 2 * box[2], 2 * box[3] + box[6]>>
NearTopCenter(b, n) ==
    LET c == TopCenter2(gt_boxes[b][GtRow(b, n)])
        p == points[b][n]
        d1 == c[1] - 2 * p[1]
        d2 == c[2] - 2 * p[2]
        d3 == c[3] - 2 * p[3]
    IN  d1 * d1 + d2 * d2 + d3 * d3 < 4 * central_radius * central_radius

Foreground(b, n) ==
    /\ InSomeGt(b, n)
    /\ BallMode => NearTopCenter(b, n)

InUnit(q) == q[2] > 0 /\ 0 <= q[1] /\ q[1] <= q[2]
IsZeroPart(t) == \A i \in 1..3 : t[i][1] = 0 /\ t[i][2] # 0
IsZeroBoxLabel(t) == \A i \in 1..8 : t[i] = 0

\* C1: in ignore-flag mode with one class, the label returned for a point is
\* 1 iff the point is inside some ground-truth box, -1 iff it is inside some
\* enlarged box and no ground-truth box, and 0 otherwise.
C1_IgnoreModeLabels ==
    (Returned /\ IgnoreMode /\ num_class = 1) =>
        \A b \in Batch : \A n \in 1..Shape.N :
            LET l == point_cls_labels[FlatOf(b, n)]
            IN  /\ l \in {1, -1, 0}
                /\ (l = 1) <=> InSomeGt(b, n)
                /\ (l = -1) <=> (InSomeExt(b, n) /\ ~InSomeGt(b, n))
                /\ (l = 0) <=> (~InSomeExt(b, n) /\ ~InSomeGt(b, n))

\* C1's case: a call in ignore-flag mode with one class has returned a
\* positive, an ignored and a background point, and a point inside a
\* ground-truth box that no enlarged box contains.
C1_Witness ==
    /\ Returned /\ IgnoreMode /\ num_class = 1
    /\ \E f \in Flat : point_cls_labels[f] = 1
    /\ \E f \in Flat : point_cls_labels[f] = -1
    /\ \E f \in Flat : point_cls_labels[f] = 0

C1_WitnessXor ==
    /\ Returned /\ IgnoreMode /\ num_class = 1
    /\ \E b \in Batch : \E n \in 1..Shape.N : InSomeGt(b, n) /\ ~InSomeExt(b, n)

\* C2 (as claimed): in the multi-class setting the label of every foreground
\* point is the class id, at least 1, of the ground-truth box containing it.
C2_FgLabelIsClassId ==
    (Returned /\ num_class # 1) =>
        \A b \in Batch : \A n \in 1..Shape.N :
            Foreground(b, n) =>
                /\ point_cls_labels[FlatOf(b, n)] = gt_classes[b][GtRow(b, n)]
                /\ point_cls_labels[FlatOf(b, n)] >= 1

C5_ConfigErrorBeforeComputation ==
    /\ (set_ignore_flag = use_ball_constraint) =>
           /\ pc \in {"entry", "raised"}
           /\ tmp = <<>>
           /\ point_cls_labels = None
    /\ (set_ignore_flag # use_ball_constraint) => raised = "none"

\* C7 (as claimed): every component of the part-offset target of a
\* foreground point, which lies strictly inside its box, is in [0, 1].
C7_PartTargetInUnitCube ==
    (Returned /\ ret_part_labels) =>
        \A b \in Batch : \A n \in 1..Shape.N :
            Foreground(b, n) =>
                \A i \in 1..3 : InUnit(point_part_labels[FlatOf(b, n)][i])

\* C8 (as claimed): in ball-constraint mode a point is labelled foreground
\* iff it is inside a box and nearer than central_radius to that box's
\* top-centre, and no point has label -1.
C8_BallModeLabels ==
    (Returned /\ BallMode) =>
        \A b \in Batch : \A n \in 1..Shape.N :
            /\ (point_cls_labels[FlatOf(b, n)] >= 1) <=>
                   (InSomeGt(b, n) /\ NearTopCenter(b, n))
            /\ ~InSomeGt(b, n) => point_cls_labels[FlatOf(b, n)] = 0
            /\ point_cls_labels[FlatOf(b, n)] # -1

\* C8 restricted to one class, where the label does not read the box row.
C8_BallModeSingleClass == (num_class = 1) => C8_BallModeLabels

\* A point outside every box whose -1 index selects a row it is near to.
C8_StrayNearLastRow ==
    /\ Returned /\ BallMode /\ num_class = 1
    /\ \E b \in Batch : \E n \in 1..Shape.N :
           /\ ~InSomeGt(b, n)
           /\ BallFlag(gt_boxes[b][Shape.M], points[b][n])

\* C9: a point that is not foreground has label 0 or -1, an all-zero
\* box-regression target and an all-zero part-offset target; with
\* ret_box_labels, the box coder runs exactly for the batch elements that
\* have a foreground point, the box labels of the others stay zero, and a
\* foreground point's box label is its encoding.
C9_NonForegroundZeroTargets ==
    Returned =>
        \A b \in Batch :
            /\ \A n \in 1..Shape.N :
                   ~Foreground(b, n) =>
                       /\ point_cls_labels[FlatOf(b, n)] \in {0, -1}
                       /\ ret_box_labels =>
                              IsZeroBoxLabel(point_box_labels[FlatOf(b, n)])
                       /\ ret_part_labels =>
                              IsZeroPart(point_part_labels[FlatOf(b, n)])
            /\ ret_box_labels =>
                   /\ (b - 1 \in encode_calls) <=>
                          (\E n \in 1..Shape.N : Foreground(b, n))
                   /\ \A n \in 1..Shape.N :
                          Foreground(b, n) =>
                              point_box_labels[FlatOf(b, n)] =
                                  encode_torch(gt_boxes[b][GtRow(b, n)], points[b][n])
            /\ ~ret_box_labels => encode_calls = {} /\ point_box_labels = None

\* C9's case: with ret_box_labels one batch element had no foreground point
\* and was not encoded, another had one beside a point that is not
\* foreground.
C9_Witness ==
    /\ Returned /\ ret_box_labels /\ ret_part_labels
    /\ \E b \in Batch :
           /\ b - 1 \notin encode_calls
           /\ \A n \in 1..Shape.N : ~Foreground(b, n)
    /\ \E b \in Batch :
           /\ b - 1 \in encode_calls
           /\ \E n \in 1..Shape.N : Foreground(b, n)
           /\ \E n \in 1..Shape.N : ~Foreground(b, n)

\* The labels of one point, from that point and its own batch element's
\* boxes only.
OwnCls(b, n) ==
    IF Foreground(b, n) THEN FgLabel(num_class, gt_boxes[b][GtRow(b, n)])
    ELSE IF IgnoreMode /\ Halo(b, n) THEN -1
    ELSE 0
OwnPart(b, n) ==
    IF Foreground(b, n) THEN PartLabel(gt_boxes[b][GtRow(b, n)], points[b][n])
    ELSE ZeroPart

\* C10: once iteration k of the loop has run, every flat index i*N + n of
\* the batch elements i <= k has been written once and holds the labels of
\* point n of element i, a function of that element's points and boxes
\* alone; the indices of the later elements are unwritten.
C10_PerElementWrites ==
    (pc \in {"loop", "done", "masked"}) =>
        \A b \in Batch : \A n \in 1..Shape.N :
            IF b - 1 < k
            THEN /\ cls_writes[FlatOf(b, n)] = 1
                 /\ point_cls_labels[FlatOf(b, n)] = OwnCls(b, n)
                 /\ ret_part_labels =>
                        point_part_labels[FlatOf(b, n)] = OwnPart(b, n)
            ELSE /\ cls_writes[FlatOf(b, n)] = 0
                 /\ point_cls_labels[FlatOf(b, n)] = 0

\* C10's case: the loop has run for every batch element, the elements hold
\* different boxes and the labels of the two elements differ.
C10_Witness ==
    /\ pc = "done" /\ k = Shape.B
    /\ gt_boxes[1] # gt_boxes[2]
    /\ point_cls_labels[FlatOf(1, 1)] # point_cls_labels[FlatOf(2, 1)]
    /\ point_cls_labels[FlatOf(1, 2)] # point_cls_labels[FlatOf(1, 1)]

(***************************************************************************)
(* The life cycle of PointIntraPartOffsetHead: construction, forward,      *)
(* get_loss.                                                               *)
(***************************************************************************)

HeadConfigs ==
    [GT_EXTRA_WIDTH : ExtraWidths, BOX_CODER : BOOLEAN,
     predict_boxes_when_training : BOOLEAN]

InitHead ==
    /\ Inputs
    /\ model_cfg \in HeadConfigs
    /\ training \in BOOLEAN
    /\ hpc = "new"
    /\ box_layers = None
    /\ forward_ret_dict = "unset"
    /\ loss_funcs = {}
    /\ batch_dict = {}
    /\ loss_result = None
    /\ set_ignore_flag = FALSE
    /\ use_ball_constraint = FALSE
    /\ ret_box_labels = FALSE
    /\ ret_part_labels = FALSE
    /\ extend_gt_boxes = None
    /\ pc = "idle"
    /\ NotCalled

assignVars == <<tmp, k, point_cls_labels, point_box_labels, point_part_labels,
                cls_writes, encode_calls>>

\* PointIntraPartOffsetHead.__init__ with PointHeadTemplate.__init__: the
\* call of build_losses is commented out, forward_ret_dict is None, and
\* box_layers exists iff a box coder is configured.
Construct ==
    /\ hpc = "new"
    /\ forward_ret_dict' = None
    /\ loss_funcs' = {}
    /\ box_layers' = model_cfg.BOX_CODER
    /\ hpc' = "constructed"
    /\ UNCHANGED <<callVars, lossVars, assignVars, pc, raised, model_cfg,
                   training, batch_dict, loss_result>>

\* The keys lines 95-106 put into batch_dict.
PredKeys(with_box) ==
    {"point_cls_preds", "point_part_preds", "point_cls_scores", "point_part_offset"}
        \cup (IF with_box THEN {"point_box_preds"} ELSE {})

\* The keys lines 120-123 put into batch_dict.
DecodedKeys(on) ==
    IF on THEN {"batch_cls_preds", "batch_box_preds", "batch_index", "cls_preds_normalized"}
    ELSE {}

\* forward in training mode, up to the call of assign_stack_targets from
\* assign_targets (lines 91-109 and 51-64).
ForwardTrain ==
    /\ hpc = "constructed"
    /\ training
    /\ batch_dict' = PredKeys(box_layers)
    /\ extend_gt_boxes' = Enlarged(gt_boxes, model_cfg.GT_EXTRA_WIDTH)
    /\ set_ignore_flag' = TRUE
    /\ use_ball_constraint' = FALSE
    /\ ret_part_labels' = TRUE
    /\ ret_box_labels' = box_layers
    /\ pc' = "entry"
    /\ hpc' = "assigning"
    /\ UNCHANGED <<num_class, points, gt_boxes, gt_classes, lossVars,
                   assignVars, raised, model_cfg, training, box_layers,
                   forward_ret_dict, loss_funcs, loss_result>>

\* forward in training mode from the return of assign_targets (lines
\* 110-126): the labels go into batch_dict; forward_ret_dict is not set.
ForwardReturn ==
    /\ hpc = "assigning"
    /\ pc = "done"
    /\ batch_dict' = batch_dict
           \cup {"point_cls_labels", "point_part_labels", "point_box_labels"}
           \cup DecodedKeys(box_layers /\ model_cfg.predict_boxes_when_training)
    /\ hpc' = "forwarded"
    /\ UNCHANGED <<callVars, lossVars, assignVars, pc, raised, model_cfg,
                   training, box_layers, forward_ret_dict, loss_funcs,
                   loss_result>>

\* forward outside training (lines 91-106 and 115-126).
ForwardEval ==
    /\ hpc = "constructed"
    /\ ~training
    /\ batch_dict' = PredKeys(box_layers) \cup DecodedKeys(box_layers)
    /\ hpc' = "forwarded"
    /\ UNCHANGED <<callVars, lossVars, assignVars, pc, raised, model_cfg,
                   training, box_layers, forward_ret_dict, loss_funcs,
                   loss_result>>

\* get_loss: get_cls_layer_loss subscripts self.forward_ret_dict (line 156)
\* and calls self.cls_loss_func (line 168) before anything is summed.
GetLoss ==
    /\ hpc = "forwarded"
    /\ IF forward_ret_dict = None
       THEN raised' = "TypeError" /\ loss_result' = None
       ELSE IF "cls_loss_func" \notin loss_funcs
       THEN raised' = "AttributeError" /\ loss_result' = None
       ELSE /\ raised' = "none"
            /\ loss_result' = [cls |-> TRUE, part |-> TRUE, box |-> box_layers]
    /\ hpc' = "loss"
    /\ UNCHANGED <<callVars, lossVars, assignVars, pc, model_cfg, training,
                   box_layers, forward_ret_dict, loss_funcs, batch_dict>>

NextHead ==
    \/ Construct
    \/ ForwardTrain
    \/ Stack
    \/ Allocate
    \/ LoopIter
    \/ Return
    \/ ForwardReturn
    \/ ForwardEval
    \/ GetLoss

SpecHead == InitHead /\ [][NextHead]_vars

\* C3 (as claimed): after a training forward pass, every point of a batch
\* element whose box rows are all zero padding has label 0, an all-zero
\* part-offset target and an all-zero box-regression target.
C3_EmptyElementAllBackground ==
    (hpc \in {"forwarded", "loss"} /\ training) =>
        \A b \in Batch :
            (\A m \in Rows : gt_boxes[b][m] = ZeroBox) =>
                \A n \in 1..Shape.N :
                    /\ point_cls_labels[FlatOf(b, n)] = 0
                    /\ IsZeroPart(point_part_labels[FlatOf(b, n)])
                    /\ box_layers => IsZeroBoxLabel(point_box_labels[FlatOf(b, n)])

\* C6 (as claimed): get_loss after a training forward pass finds
\* forward_ret_dict and the loss functions set and gives the sum of the
\* classification and part losses, and of the box loss iff box_layers.
C6_GetLossAfterTrainingForward ==
    /\ (hpc = "forwarded" /\ training) =>
           /\ forward_ret_dict # None
           /\ "cls_loss_func" \in loss_funcs
    /\ (hpc = "loss" /\ training) =>
           /\ raised = "none"
           /\ loss_result = [cls |-> TRUE, part |-> TRUE, box |-> box_layers]

====
